---- MODULE Spec2Model ----
(***************************************************************************)
(* Metro-rail ticketing backend: the user ledger (balance, trip counters)  *)
(* and the trip lifecycle (issue, redeem, complete), as the route handlers *)
(* of src/routes and the schema methods of src/models implement them.      *)
(*                                                                         *)
(* A handler is a sequence of steps, one per database operation: a step is *)
(* the operation together with the synchronous code that runs when its     *)
(* await resumes.  Steps of different requests interleave freely (Spec);   *)
(* SeqSpec admits a new request only when no other one is in flight.       *)
(* A mongoose document read by a handler is a private copy: save() writes  *)
(* back the paths the handler modified, computed from that copy.           *)
(***************************************************************************)
EXTENDS Integers, Sequences, FiniteSets, TLC

(* ---------------- bounds of the model ---------------- *)
MaxTrips == 2
\* trips issued where the whole lifecycle of a trip is explored
MaxTickets == 1
MaxTicks == 2
\* deposits are admitted while the balance stays within MaxFunds base fares
MaxFunds == 3
\* fares in the collection
MaxFares == 2

(* ---------------- program constants ---------------- *)
\* hours a trip stays valid (24 * 60 * 60 * 1000 ms)
TripLifetime == 24
\* price of the seeded fare between the first two stations
BaseFare == 20
\* largest numberOfPassengers the validation admits
MaxPassengers == 10
\* minutes of the seeded fare between the first two stations
SampleDuration == 5
\* smallest deposit the validation admits
MinDeposit == 1
\* amounts are floats: the model counts money in halves of the currency unit,
\* so that an amount between 0 and 1 exists
Unit == 2

Money(x) == x * Unit

\* an unset date / reference (mongoose null); dates are hours >= 0
Null == -1

Users == {"u1", "u2"}
Stations == {"A", "B"}
Reqs == {"r1", "r2"}
SeqReqs == {"r1"}
PaymentMethods == {"balance", "cash", "card"}

\* inputs the requests are drawn from (valid and invalid ones)
PassengerInputs == {0, 2, 11}
PaymentInputs == {"balance", "cash", "cheque"}
DepositInputs == {0, 1, Money(BaseFare)}
BalanceInputs == {0 - Money(BaseFare), Money(2 * BaseFare)}
\* the clock advances by one trip lifetime: a trip is seen before, at and after its expiry
ClockStep == TripLifetime
\* fare types of the schema enum (two of the five) and one that is not in it
FareTypes == {"regular", "peak"}
FareTypeInputs == {"regular", "peak", "vip"}
\* station ids of requests: the stations and an id that was never created
StationInputs == Stations \cup {"Z"}
\* user ids of requests: the users and an id that was never created
UserInputs == Users \cup {"u0"}
\* prices of update requests: unset, negative, and the base fare
UpdatePriceInputs == {Null, 0 - Unit, Money(BaseFare)}
\* effectiveFrom of requests: unset, and the time one clock step after the start
EffectiveFromInputs == {Null, ClockStep}
\* effectiveTo of requests: unset, and the start time
EffectiveToInputs == {Null, 0}
\* prices of requests: negative, and one currency unit above the base fare
PriceInputs == {0 - Unit, Money(BaseFare) + Unit}

VARIABLES users, stations, fares, trips, req, now

vars == <<users, stations, fares, trips, req, now>>

TripIds == 1..MaxTrips

(* ---------------- documents ---------------- *)
\* a user as register creates it (schema defaults)
NewUser == [balance |-> 0, totalTrips |-> 0, totalExpense |-> 0, isActive |-> TRUE]

\* a station as the schema defaults make it
NewStation == [isActive |-> TRUE]

\* a fare as addSampleFares inserts it at time 0 (schema defaults)
SampleFare(from, to, price) ==
  [fromStation |-> from, toStation |-> to, fare |-> price, duration |-> SampleDuration,
   fareType |-> "regular", isActive |-> TRUE, effectiveFrom |-> 0, effectiveTo |-> Null]

\* a trip as Trip.create builds it at time t (schema defaults)
NewTripSinglePrice(u, from, to, price, n, total, pay, t) ==
  [user |-> u, fromStation |-> from, toStation |-> to, fare |-> price,
   numberOfPassengers |-> n, totalAmount |-> price, status |-> "created",
   usedAt |-> Null, expiresAt |-> t + TripLifetime, journeyStartTime |-> Null,
   journeyEndTime |-> Null, paymentMethod |-> pay, paymentStatus |-> "pending"]

NewTrip(u, from, to, price, n, total, pay, t) ==
  [user |-> u, fromStation |-> from, toStation |-> to, fare |-> price,
   numberOfPassengers |-> n, totalAmount |-> total, status |-> "created",
   usedAt |-> Null, expiresAt |-> t + TripLifetime, journeyStartTime |-> Null,
   journeyEndTime |-> Null, paymentMethod |-> pay, paymentStatus |-> "pending"]

Idle == [op |-> "none", pc |-> "idle"]
\* a handler that has answered: the HTTP status and the message of the envelope
Done(o, code, msg) == [op |-> o, pc |-> "done", status |-> code, message |-> msg]

InFlight(r) == req[r].pc \notin {"idle", "done"}
Quiet == \A r \in Reqs : ~InFlight(r)

(* ---------------- validation middleware ---------------- *)
\* createTripValidation: numberOfPassengers isInt 1..10, paymentMethod isIn
createTripValidation(n, pay) == n >= 1 /\ n <= MaxPassengers /\ pay \in PaymentMethods

\* the message of the first validation error (errors.array()[0].msg)
createTripValidationMsg(n, pay) ==
  IF n >= 1 /\ n <= MaxPassengers THEN "Invalid payment method"
  ELSE "Number of passengers must be between 1 and 10"

\* depositValidation: amount isFloat min 1
depositValidationPositive(amount) == amount > 0

depositValidation(amount) == amount >= Money(MinDeposit)

\* userValidation: balance isFloat min 0
userValidation(balance) == balance >= 0

(* ---------------- model statics and methods ---------------- *)
\* Fare.getFare: the active fares of the tuple whose effectiveTo is null or not passed
getFareEitherWay(from, to, type) ==
  {i \in 1..Len(fares) :
      /\ {fares[i].fromStation, fares[i].toStation} = {from, to}
      /\ fares[i].fareType = type /\ fares[i].isActive
      /\ (fares[i].effectiveTo = Null \/ fares[i].effectiveTo >= now)}

getFare(from, to, type) ==
  {i \in 1..Len(fares) :
      /\ fares[i].fromStation = from /\ fares[i].toStation = to
      /\ fares[i].fareType = type /\ fares[i].isActive
      /\ (fares[i].effectiveTo = Null \/ fares[i].effectiveTo >= now)}

\* Trip.getValidTrip: the trip of that code, if created and expiresAt > now
getValidTripAnyStatus(code) ==
  {i \in 1..Len(trips) : i = code /\ trips[i].expiresAt > now}

getValidTrip(code) ==
  {i \in 1..Len(trips) :
      i = code /\ trips[i].status = "created" /\ trips[i].expiresAt > now}

\* populate('user', 'fullName phoneNumber'): the owner with the selected paths only
\* (neither path is part of the ledger; the counters and the balance are not loaded)
PopulateUser(u) == [id |-> u]

\* the in-memory status a trip document has after the expiry branch of useTrip;
\* the branch throws before save(), so the stored document keeps what it had
ExpiredSaved(stored) == [stored EXCEPT !.status = "expired"]

ExpiredInStore(stored) == stored

\* tripSchema.methods.useTrip on the document doc at time t; stored is the
\* trip in the collection.  Gives the outcome and the trip the collection holds after.
useTripNoRecheck(doc, stored, t) ==
  IF doc.status # "created"
    THEN [ok |-> FALSE, message |-> "Trip cannot be used. Status: " \o doc.status, trip |-> stored]
    ELSE [ok |-> TRUE, message |-> "",
          trip |-> [stored EXCEPT !.status = "used", !.usedAt = t, !.journeyStartTime = t]]

useTrip(doc, stored, t) ==
  IF doc.status # "created"
    THEN [ok |-> FALSE, message |-> "Trip cannot be used. Status: " \o doc.status, trip |-> stored]
    ELSE IF doc.expiresAt < t
      THEN [ok |-> FALSE, message |-> "Trip has expired", trip |-> ExpiredInStore(stored)]
      ELSE [ok |-> TRUE, message |-> "",
            trip |-> [stored EXCEPT !.status = "used", !.usedAt = t, !.journeyStartTime = t]]

\* tripSchema.methods.completeJourney
completeJourneyAnyStatus(doc, stored, t) ==
  [ok |-> TRUE, message |-> "", trip |-> [stored EXCEPT !.journeyEndTime = t]]

completeJourneySettlesPayment(doc, stored, t) ==
  IF doc.status # "used"
    THEN [ok |-> FALSE, trip |-> stored,
          message |-> "Journey cannot be completed. Trip status: " \o doc.status]
    ELSE [ok |-> TRUE, message |-> "",
          trip |-> [stored EXCEPT !.journeyEndTime = t, !.paymentStatus = "completed"]]

completeJourney(doc, stored, t) ==
  IF doc.status # "used"
    THEN [ok |-> FALSE, trip |-> stored,
          message |-> "Journey cannot be completed. Trip status: " \o doc.status]
    ELSE [ok |-> TRUE, message |-> "", trip |-> [stored EXCEPT !.journeyEndTime = t]]

\* userSchema.methods.updateTripStats on the document doc: a counter that was
\* not loaded is undefined, undefined + n is NaN, the Number cast of NaN fails
\* and save() rejects with a validation error (message "User validation failed: ...")
updateTripStatsInStore(doc, stored, tripFare) ==
  [ok |-> TRUE,
   user |-> [stored EXCEPT !.totalTrips = @ + 1, !.totalExpense = @ + tripFare]]

updateTripStats(doc, stored, tripFare) ==
  IF {"totalTrips", "totalExpense"} \subseteq DOMAIN doc
    THEN [ok |-> TRUE,
          user |-> [stored EXCEPT !.totalTrips = doc.totalTrips + 1,
                                  !.totalExpense = doc.totalExpense + tripFare]]
    ELSE [ok |-> FALSE, user |-> stored]

\* userSchema.methods.addBalance: balance of the copy plus amount, saved
addBalance(docBalance, stored, amount) ==
  [stored EXCEPT !.balance = docBalance + amount]

\* userSchema.methods.deductBalance: checks and subtracts on the copy, then
\* save() sets the stored balance to the copy's (schema validator: min 0)
deductBalanceInPlace(docBalance, stored, amount) ==
  [ok |-> TRUE, user |-> [stored EXCEPT !.balance = stored.balance - amount]]

deductBalance(docBalance, stored, amount) ==
  IF docBalance < amount \/ docBalance - amount < 0
    THEN [ok |-> FALSE, user |-> stored]
    ELSE [ok |-> TRUE, user |-> [stored EXCEPT !.balance = docBalance - amount]]

\* createTrip: totalAmount = fare.fare * numberOfPassengers
totalAmountPerTrip(price, n) == price

totalAmount(price, n) == price * n

\* createTrip: the balance check before Trip.create
InsufficientUnchecked(pay, balance, total) == FALSE

InsufficientWhateverPayment(pay, balance, total) == balance < total

InsufficientBalance(pay, balance, total) == pay = "balance" /\ balance < total

\* Model.findById(id): the document of that id, active or not
findById(docs, id) == {i \in DOMAIN docs : i = id}

(* ---------------- initial state ---------------- *)
\* two registered users, the two stations and the fare addSampleFares creates
Init ==
  /\ users = [u \in Users |-> NewUser]
  /\ stations = [s \in Stations |-> NewStation]
  /\ fares = <<SampleFare("A", "B", Money(BaseFare))>>
  /\ trips = <<>>
  /\ req = [r \in Reqs |-> Idle]
  /\ now = 0

\* trips in the collection plus those the requests in flight may still create
TripsClaimed ==
  Len(trips) + Cardinality({r \in Reqs : req[r].op = "issue" /\ req[r].pc \in {"user", "create"}})

(* ---------------- depositMoney ---------------- *)
DepositFindUser(r, u, amount) ==
  /\ req[r] = Idle
  /\ users[u].balance + amount <= Money(MaxFunds * BaseFare)
  /\ req' = [req EXCEPT ![r] =
       IF ~depositValidation(amount) THEN Done("deposit", 400, "Amount must be at least 1")
       ELSE [op |-> "deposit", pc |-> "save", user |-> u, amount |-> amount,
             balance |-> users[u].balance]]
  /\ UNCHANGED <<stations, users, fares, trips, now>>

DepositAddBalance(r) ==
  /\ req[r].op = "deposit" /\ req[r].pc = "save"
  /\ users' = [users EXCEPT ![req[r].user] = addBalance(req[r].balance, @, req[r].amount)]
  /\ req' = [req EXCEPT ![r] = Done("deposit", 200, "Deposit successful")]
  /\ UNCHANGED <<stations, fares, trips, now>>

(* ---------------- updateUser (admin balance edit) ---------------- *)
UpdateUserFind(r, u, balance) ==
  /\ req[r] = Idle
  /\ req' = [req EXCEPT ![r] =
       IF ~userValidation(balance) THEN Done("update", 400, "Balance must be a positive number")
       ELSE [op |-> "update", pc |-> "save", user |-> u, amount |-> balance,
             balance |-> users[u].balance]]
  /\ UNCHANGED <<stations, users, fares, trips, now>>

\* save() sends the balance only if the handler changed it on its copy
UpdateUserSave(r) ==
  /\ req[r].op = "update" /\ req[r].pc = "save"
  /\ users' = [users EXCEPT ![req[r].user] =
       IF req[r].amount = req[r].balance THEN @ ELSE [@ EXCEPT !.balance = req[r].amount]]
  /\ req' = [req EXCEPT ![r] = Done("update", 200, "User updated successfully")]
  /\ UNCHANGED <<stations, fares, trips, now>>

(* ---------------- createTrip (Issue) ---------------- *)
\* validation, then Fare.getFare(fromStation, toStation) for the regular fare
CreateTripGetFare(r, u, from, to, n, pay) ==
  /\ req[r] = Idle
  /\ TripsClaimed < MaxTrips
  /\ LET found == getFare(from, to, "regular") IN
     req' = [req EXCEPT ![r] =
       IF ~createTripValidation(n, pay) THEN Done("issue", 400, createTripValidationMsg(n, pay))
       ELSE IF found = {} THEN Done("issue", 404, "Fare not found for this route")
       ELSE LET f == fares[CHOOSE i \in found : \A j \in found : i <= j] IN
            [op |-> "issue", pc |-> "user", user |-> u, from |-> from, to |-> to,
             n |-> n, pay |-> pay, fare |-> f.fare, totalAmount |-> totalAmount(f.fare, n)]]
  /\ UNCHANGED <<stations, users, fares, trips, now>>

\* User.findById and the balance check
CreateTripFindUser(r) ==
  /\ req[r].op = "issue" /\ req[r].pc = "user"
  /\ req' = [req EXCEPT ![r] =
       IF InsufficientBalance(@.pay, users[@.user].balance, @.totalAmount)
         THEN Done("issue", 400, "Insufficient balance")
         ELSE [@ EXCEPT !.pc = "create"] @@ [balance |-> users[@.user].balance]]
  /\ UNCHANGED <<stations, users, fares, trips, now>>

\* Trip.create; a cash or card trip is answered here
CreateTripCreate(r) ==
  /\ req[r].op = "issue" /\ req[r].pc = "create"
  /\ trips' = Append(trips, NewTrip(req[r].user, req[r].from, req[r].to, req[r].fare,
                                    req[r].n, req[r].totalAmount, req[r].pay, now))
  /\ req' = [req EXCEPT ![r] =
       IF @.pay = "balance"
         THEN [op |-> "issue", pc |-> "deduct", user |-> @.user,
               totalAmount |-> @.totalAmount, balance |-> @.balance, trip |-> Len(trips) + 1]
         ELSE Done("issue", 201, "Trip created successfully")]
  /\ UNCHANGED <<stations, users, fares, now>>

\* user.deductBalance(totalAmount) on the copy read by CreateTripFindUser
CreateTripDeduct(r) ==
  /\ req[r].op = "issue" /\ req[r].pc = "deduct"
  /\ LET res == deductBalance(req[r].balance, users[req[r].user], req[r].totalAmount) IN
     /\ users' = [users EXCEPT ![req[r].user] = res.user]
     /\ req' = [req EXCEPT ![r] =
          IF res.ok THEN Done("issue", 201, "Trip created successfully")
          ELSE Done("issue", 500, "Insufficient balance")]
  /\ UNCHANGED <<stations, fares, trips, now>>

(* ---------------- useTrip (Redeem) ---------------- *)
\* the paths of a loaded trip document that useTrip goes on to read
TripDoc(t) == [status |-> t.status, expiresAt |-> t.expiresAt, totalAmount |-> t.totalAmount]

\* Trip.getValidTrip(tripCode)
UseTripGetValid(r, code) ==
  /\ req[r] = Idle
  /\ LET found == getValidTrip(code) IN
     req' = [req EXCEPT ![r] =
       IF found = {} THEN Done("redeem", 404, "Invalid or expired trip code") @@ [trip |-> code]
       ELSE [op |-> "redeem", pc |-> "use", trip |-> code, doc |-> TripDoc(trips[code]),
             owner |-> PopulateUser(trips[code].user)]]
  /\ UNCHANGED <<stations, users, fares, trips, now>>

\* trip.useTrip(): the checks at the current time, then save()
UseTripUse(r) ==
  /\ req[r].op = "redeem" /\ req[r].pc = "use"
  /\ LET res == useTrip(req[r].doc, trips[req[r].trip], now) IN
     /\ trips' = [trips EXCEPT ![req[r].trip] = res.trip]
     /\ req' = [req EXCEPT ![r] =
          IF res.ok THEN [@ EXCEPT !.pc = "stats"]
          ELSE Done("redeem", 400, res.message) @@ [trip |-> @.trip]]
  /\ UNCHANGED <<stations, users, fares, now>>

\* trip.user.updateTripStats(trip.totalAmount) on the populated owner
UseTripStats(r) ==
  /\ req[r].op = "redeem" /\ req[r].pc = "stats"
  /\ LET u == req[r].owner.id
         res == updateTripStats(req[r].owner, users[u], req[r].doc.totalAmount) IN
     /\ users' = [users EXCEPT ![u] = res.user]
     /\ req' = [req EXCEPT ![r] =
          IF res.ok THEN Done("redeem", 200, "Trip used successfully") @@ [trip |-> @.trip]
          ELSE Done("redeem", 400, "User validation failed") @@ [trip |-> @.trip]]
  /\ UNCHANGED <<stations, fares, trips, now>>

(* ---------------- completeJourney ---------------- *)
\* the owner check: trip.user.toString() !== req.user.id
NotAuthorizedUnchecked(owner, requester) == FALSE

NotAuthorized(owner, requester) == owner # requester

\* Trip.findById, the owner check, and trip.completeJourney() up to its save()
CompleteJourneyFind(r, u, id) ==
  /\ req[r] = Idle
  /\ req' = [req EXCEPT ![r] =
       IF id > Len(trips) THEN Done("complete", 404, "Trip not found")
       ELSE IF NotAuthorized(trips[id].user, u) THEN Done("complete", 403, "Not authorized")
       ELSE IF ~completeJourney(trips[id], trips[id], now).ok
         THEN Done("complete", 400, completeJourney(trips[id], trips[id], now).message)
       ELSE [op |-> "complete", pc |-> "save", trip |-> id,
             doc |-> [status |-> trips[id].status], at |-> now]]
  /\ UNCHANGED <<stations, users, fares, trips, now>>

\* save() of the journeyEndTime set on the copy
CompleteJourneySave(r) ==
  /\ req[r].op = "complete" /\ req[r].pc = "save"
  /\ trips' = [trips EXCEPT ![req[r].trip] =
       completeJourney(req[r].doc, @, req[r].at).trip]
  /\ req' = [req EXCEPT ![r] =
       Done("complete", 200, "Journey completed successfully")]
  /\ UNCHANGED <<stations, users, fares, now>>

(* ---------------- createFare ---------------- *)
\* fareValidation: fare isFloat min 0, fareType isIn the enum
fareValidation(price, type) == price >= 0 /\ type \in FareTypes

\* the message of the first validation error
fareValidationMsg(price, type) ==
  IF price < 0 THEN "Fare must be a positive number" ELSE "Invalid fare type"

\* Fare.findOne({fromStation, toStation, fareType, isActive: true})
existingFare(from, to, type) ==
  {i \in 1..Len(fares) :
      /\ fares[i].fromStation = from /\ fares[i].toStation = to
      /\ fares[i].fareType = type /\ fares[i].isActive}

\* the unique index on (fromStation, toStation, fareType): an insert of a tuple
\* that some document, active or not, already has fails with a duplicate key error
DuplicateKeyUnchecked(from, to, type) == FALSE

DuplicateKeyAmongActive(from, to, type) == existingFare(from, to, type) # {}

DuplicateKey(from, to, type) ==
  \E i \in 1..Len(fares) :
      /\ fares[i].fromStation = from /\ fares[i].toStation = to
      /\ fares[i].fareType = type

\* fares in the collection plus those the requests in flight may still insert
FaresClaimed ==
  Len(fares) + Cardinality({r \in Reqs : req[r].op = "createFare" /\ req[r].pc = "create"})

\* validation, Station.findById twice, and the existence query
CreateFareFind(r, from, to, price, type, ef, et) ==
  /\ req[r] = Idle
  /\ FaresClaimed < MaxFares
  /\ req' = [req EXCEPT ![r] =
       IF ~fareValidation(price, type) THEN Done("createFare", 400, fareValidationMsg(price, type))
       ELSE IF findById(stations, from) = {} \/ findById(stations, to) = {}
         THEN Done("createFare", 404, "One or both stations not found")
       ELSE IF existingFare(from, to, type) # {}
         THEN Done("createFare", 400, "Fare already exists for this route and type")
       ELSE [op |-> "createFare", pc |-> "create", from |-> from, to |-> to,
             fare |-> price, fareType |-> type, effectiveFrom |-> ef, effectiveTo |-> et]]
  /\ UNCHANGED <<users, stations, fares, trips, now>>

\* Fare.create({..., effectiveFrom: effectiveFrom || new Date(), effectiveTo})
CreateFareCreate(r) ==
  /\ req[r].op = "createFare" /\ req[r].pc = "create"
  /\ IF DuplicateKey(req[r].from, req[r].to, req[r].fareType)
       THEN /\ fares' = fares
            /\ req' = [req EXCEPT ![r] = Done("createFare", 500, "E11000 duplicate key error")]
       ELSE /\ fares' = Append(fares,
                 [fromStation |-> req[r].from, toStation |-> req[r].to, fare |-> req[r].fare,
                  duration |-> SampleDuration, fareType |-> req[r].fareType, isActive |-> TRUE,
                  effectiveFrom |-> IF req[r].effectiveFrom = Null THEN now
                                    ELSE req[r].effectiveFrom,
                  effectiveTo |-> req[r].effectiveTo])
            /\ req' = [req EXCEPT ![r] = Done("createFare", 201, "Fare created successfully")]
  /\ UNCHANGED <<users, stations, trips, now>>

(* ---------------- updateFare ---------------- *)
\* fields of the fare schema an update must not name
nonEditableFields ==
  {"fromStation", "toStation", "fareType", "effectiveFrom", "effectiveTo", "isActive"}

\* bodies of update requests: the fields named besides fare
SentFieldInputs == {{}, {"duration"}, {"isActive"}, {"duration", "fromStation"}}

\* sentFields.filter(field => nonEditableFields.includes(field))
invalidFieldsIgnored(sent) == {}

invalidFields(sent) == sent \cap nonEditableFields

\* fareEditValidation: fare optional, isFloat min 0
fareEditValidation(price) == price = Null \/ price >= 0

\* validation, the non-editable check, Fare.findById, and the assignments on the copy
UpdateFareFind(r, id, price, sent) ==
  /\ req[r] = Idle
  /\ req' = [req EXCEPT ![r] =
       IF ~fareEditValidation(price) THEN Done("updateFare", 400, "Fare must be a positive number")
       ELSE IF invalidFields(sent) # {} THEN Done("updateFare", 400, "Cannot edit the following fields")
       ELSE IF findById(fares, id) = {} THEN Done("updateFare", 404, "Fare not found")
       ELSE [op |-> "updateFare", pc |-> "save", id |-> id,
             set |-> (IF price # Null /\ price # fares[id].fare
                        THEN [fare |-> price] ELSE << >>)
                     @@ (IF "duration" \in sent /\ SampleDuration + 1 # fares[id].duration
                           THEN [duration |-> SampleDuration + 1] ELSE << >>)]]
  /\ UNCHANGED <<users, stations, fares, trips, now>>

\* fareRecord.save(): the paths modified on the copy are written
UpdateFareSave(r) ==
  /\ req[r].op = "updateFare" /\ req[r].pc = "save"
  /\ fares' = [fares EXCEPT ![req[r].id] =
       [f \in DOMAIN @ |-> IF f \in DOMAIN req[r].set THEN req[r].set[f] ELSE @[f]]]
  /\ req' = [req EXCEPT ![r] = Done("updateFare", 200, "Fare updated successfully")]
  /\ UNCHANGED <<users, stations, trips, now>>

(* ---------------- deleteFare, deleteStation, deleteUser ---------------- *)
\* the soft delete of the document id of a collection: isActive = false on the
\* copy; save() writes the path if the assignment changed it
deleteOne(docs, id, wasActive) == [i \in DOMAIN docs \ {id} |-> docs[i]]

softDelete(docs, id, wasActive) ==
  IF wasActive THEN [docs EXCEPT ![id].isActive = FALSE] ELSE docs

DeleteFareFind(r, id) ==
  /\ req[r] = Idle
  /\ req' = [req EXCEPT ![r] =
       IF findById(fares, id) = {} THEN Done("deleteFare", 404, "Fare not found")
       ELSE [op |-> "deleteFare", pc |-> "save", id |-> id, wasActive |-> fares[id].isActive]]
  /\ UNCHANGED <<users, stations, fares, trips, now>>

DeleteFareSave(r) ==
  /\ req[r].op = "deleteFare" /\ req[r].pc = "save"
  /\ fares' = softDelete(fares, req[r].id, req[r].wasActive)
  /\ req' = [req EXCEPT ![r] = Done("deleteFare", 200, "Fare deleted successfully")]
  /\ UNCHANGED <<users, stations, trips, now>>

DeleteStationFind(r, id) ==
  /\ req[r] = Idle
  /\ req' = [req EXCEPT ![r] =
       IF findById(stations, id) = {} THEN Done("deleteStation", 404, "Station not found")
       ELSE [op |-> "deleteStation", pc |-> "save", id |-> id,
             wasActive |-> stations[id].isActive]]
  /\ UNCHANGED <<users, stations, fares, trips, now>>

DeleteStationSave(r) ==
  /\ req[r].op = "deleteStation" /\ req[r].pc = "save"
  /\ stations' = softDelete(stations, req[r].id, req[r].wasActive)
  /\ req' = [req EXCEPT ![r] = Done("deleteStation", 200, "Station deleted successfully")]
  /\ UNCHANGED <<users, fares, trips, now>>

DeleteUserFind(r, id) ==
  /\ req[r] = Idle
  /\ req' = [req EXCEPT ![r] =
       IF findById(users, id) = {} THEN Done("deleteUser", 404, "User not found")
       ELSE [op |-> "deleteUser", pc |-> "save", id |-> id, wasActive |-> users[id].isActive]]
  /\ UNCHANGED <<users, stations, fares, trips, now>>

DeleteUserSave(r) ==
  /\ req[r].op = "deleteUser" /\ req[r].pc = "save"
  /\ users' = softDelete(users, req[r].id, req[r].wasActive)
  /\ req' = [req EXCEPT ![r] = Done("deleteUser", 200, "User deleted successfully")]
  /\ UNCHANGED <<stations, fares, trips, now>>

(* ---------------- getFareById, getStationById, getUserById ---------------- *)
GetFareById(r, id) ==
  /\ req[r] = Idle
  /\ req' = [req EXCEPT ![r] =
       IF findById(fares, id) = {}
         THEN Done("getFare", 404, "Fare not found") @@ [id |-> id]
         ELSE Done("getFare", 200, "Fare retrieved successfully") @@ [id |-> id]]
  /\ UNCHANGED <<users, stations, fares, trips, now>>

GetStationById(r, id) ==
  /\ req[r] = Idle
  /\ req' = [req EXCEPT ![r] =
       IF findById(stations, id) = {}
         THEN Done("getStation", 404, "Station not found") @@ [id |-> id]
         ELSE Done("getStation", 200, "Station retrieved successfully") @@ [id |-> id]]
  /\ UNCHANGED <<users, stations, fares, trips, now>>

GetUserById(r, id) ==
  /\ req[r] = Idle
  /\ req' = [req EXCEPT ![r] =
       IF findById(users, id) = {}
         THEN Done("getUser", 404, "User not found") @@ [id |-> id]
         ELSE Done("getUser", 200, "User retrieved successfully") @@ [id |-> id]]
  /\ UNCHANGED <<users, stations, fares, trips, now>>

(* ---------------- getFareInBetween ---------------- *)
\* Fare.findOne({fromStation, toStation, fareType, isActive: true}) after both
\* stations were found by id
getFareInBetween(from, to, type) ==
  IF findById(stations, from) = {} \/ findById(stations, to) = {} THEN {}
  ELSE existingFare(from, to, type)

\* GET /api/fares/in-between for the regular fare (the default fareType)
GetFareInBetween(r, from, to) ==
  /\ req[r] = Idle
  /\ LET found == getFareInBetween(from, to, "regular") IN
     req' = [req EXCEPT ![r] =
       IF findById(stations, from) = {}
         THEN Done("inBetween", 404, "From station not found") @@ [from |-> from, to |-> to]
       ELSE IF findById(stations, to) = {}
         THEN Done("inBetween", 404, "To station not found") @@ [from |-> from, to |-> to]
       ELSE IF found = {}
         THEN Done("inBetween", 404, "No fare found for route") @@ [from |-> from, to |-> to]
       ELSE Done("inBetween", 200, "Fare retrieved successfully")
            @@ [from |-> from, to |-> to, fare |-> CHOOSE i \in found : \A j \in found : i <= j]]
  /\ UNCHANGED <<users, stations, fares, trips, now>>

(* ---------------- environment ---------------- *)
\* the response has been sent: the slot serves the next request
Respond(r) ==
  /\ req[r].pc = "done"
  /\ req' = [req EXCEPT ![r] = Idle]
  /\ UNCHANGED <<stations, users, fares, trips, now>>

\* time passes
Tick ==
  /\ now + ClockStep <= MaxTicks * ClockStep
  /\ now' = now + ClockStep
  /\ UNCHANGED <<stations, users, fares, trips, req>>

\* a new request takes the first free slot (slots are interchangeable)
FirstFree(r) == req[r] = Idle /\ (r = "r2" => req["r1"] # Idle)

(* ---------------- the user ledger under concurrent requests ---------------- *)
\* first steps of the handlers that write a balance
LedgerArrive(r) ==
  \/ \E u \in Users, a \in DepositInputs : DepositFindUser(r, u, a)
  \/ \E u \in Users, b \in BalanceInputs : UpdateUserFind(r, u, b)
  \/ \E u \in Users, from \in Stations, to \in Stations,
        n \in PassengerInputs, pay \in PaymentInputs :
       CreateTripGetFare(r, u, from, to, n, pay)

LedgerProceed(r) ==
  \/ DepositAddBalance(r)
  \/ UpdateUserSave(r)
  \/ CreateTripFindUser(r)
  \/ CreateTripCreate(r)
  \/ CreateTripDeduct(r)

LedgerNext ==
  \/ \E r \in Reqs : FirstFree(r) /\ LedgerArrive(r)
  \/ \E r \in Reqs : LedgerProceed(r)
  \/ \E r \in Reqs : Respond(r)

LedgerSpec == Init /\ [][LedgerNext]_vars

(* ---------------- the user ledger, one request at a time ---------------- *)
LedgerSeqNext ==
  \/ \E r \in SeqReqs : Quiet /\ LedgerArrive(r)
  \/ \E r \in SeqReqs : LedgerProceed(r)
  \/ \E r \in SeqReqs : Respond(r)

LedgerSeqSpec == Init /\ [][LedgerSeqNext]_vars

(* ---------------- the fare table under concurrent requests ---------------- *)
\* the store before any fare has been created
FareInit ==
  /\ users = [u \in Users |-> NewUser]
  /\ stations = [s \in Stations |-> NewStation]
  /\ fares = <<>>
  /\ trips = <<>>
  /\ req = [r \in Reqs |-> Idle]
  /\ now = 0

FareIds == 1..MaxFares

\* first steps of the admin's fare handlers; the new fares leave A, for B or
\* for a station that was never created, and take the schema's effectiveFrom
\* and effectiveTo
FareArrive(r) ==
  \/ \E to \in StationInputs \ {"A"}, p \in PriceInputs, t \in FareTypeInputs :
       CreateFareFind(r, "A", to, p, t, Null, Null)
  \/ \E id \in FareIds, p \in UpdatePriceInputs, sent \in SentFieldInputs :
       UpdateFareFind(r, id, p, sent)
  \/ \E id \in FareIds : DeleteFareFind(r, id)

FareProceed(r) ==
  \/ CreateFareCreate(r)
  \/ UpdateFareSave(r)
  \/ DeleteFareSave(r)

FareNext ==
  \/ \E r \in Reqs : FirstFree(r) /\ FareArrive(r)
  \/ \E r \in Reqs : FareProceed(r)
  \/ \E r \in Reqs : Respond(r)

FareSpec == FareInit /\ [][FareNext]_vars

(* ---------------- deletes and lookups under concurrent requests ---------------- *)
\* first steps of the delete and get-by-id handlers, of a createFare for the
\* seeded pair and of a cash Issue on it
CatalogArrive(r) ==
  \/ \E id \in FareIds : DeleteFareFind(r, id)
  \/ \E id \in StationInputs : DeleteStationFind(r, id)
  \/ \E id \in UserInputs : DeleteUserFind(r, id)
  \/ \E id \in FareIds : GetFareById(r, id)
  \/ \E id \in StationInputs : GetStationById(r, id)
  \/ \E id \in UserInputs : GetUserById(r, id)
  \/ \E t \in FareTypes : CreateFareFind(r, "A", "B", Money(BaseFare) + Unit, t, Null, Null)
  \/ TripsClaimed < MaxTickets /\ CreateTripGetFare(r, "u1", "A", "B", 2, "cash")

CatalogProceed(r) ==
  \/ DeleteFareSave(r)
  \/ DeleteStationSave(r)
  \/ DeleteUserSave(r)
  \/ CreateFareCreate(r)
  \/ CreateTripFindUser(r)
  \/ CreateTripCreate(r)

CatalogNext ==
  \/ \E r \in Reqs : FirstFree(r) /\ CatalogArrive(r)
  \/ \E r \in Reqs : CatalogProceed(r)
  \/ \E r \in Reqs : Respond(r)

CatalogSpec == Init /\ [][CatalogNext]_vars

(* ---------------- fares and Issue on a line of three stations ---------------- *)
RouteStations == Stations \cup {"C"}

\* the line A - B - C with the seeded fare of its first two stations, after u1
\* has deposited the price of one trip for two
RouteInit ==
  /\ users = [u \in Users |->
       IF u = "u1" THEN [NewUser EXCEPT !.balance = Money(2 * BaseFare)] ELSE NewUser]
  /\ stations = [s \in RouteStations |-> NewStation]
  /\ fares = <<SampleFare("A", "B", Money(BaseFare))>>
  /\ trips = <<>>
  /\ req = [r \in Reqs |-> Idle]
  /\ now = 0

\* station pairs of the new fares: the reverse of the seeded one, the next hop,
\* and the two ends of the line
RoutePairs == {<<"B", "A">>, <<"B", "C">>, <<"A", "C">>}

RouteArrive(r) ==
  \/ \E p \in RoutePairs, t \in FareTypes :
       CreateFareFind(r, p[1], p[2], Money(BaseFare) + Unit, t, Null, Null)
  \/ \E id \in FareIds : DeleteFareFind(r, id)
  \/ \E from \in RouteStations, to \in RouteStations :
       TripsClaimed < MaxTickets /\ CreateTripGetFare(r, "u1", from, to, 2, "balance")

RouteProceed(r) ==
  \/ CreateFareCreate(r)
  \/ DeleteFareSave(r)
  \/ CreateTripFindUser(r)
  \/ CreateTripCreate(r)
  \/ CreateTripDeduct(r)

RouteNext ==
  \/ \E r \in SeqReqs : Quiet /\ RouteArrive(r)
  \/ \E r \in SeqReqs : RouteProceed(r)
  \/ \E r \in SeqReqs : Respond(r)

RouteSpec == RouteInit /\ [][RouteNext]_vars

(* ---------------- fares with a validity window, Issue and the clock ---------------- *)
EffectiveArrive(r) ==
  \/ \E t \in FareTypes, ef \in EffectiveFromInputs, et \in EffectiveToInputs :
       CreateFareFind(r, "A", "C", Money(BaseFare) + Unit, t, ef, et)
  \/ \E id \in FareIds : DeleteFareFind(r, id)
  \/ \E to \in RouteStations, pay \in PaymentMethods :
       TripsClaimed < MaxTickets /\ CreateTripGetFare(r, "u1", "A", to, 2, pay)
  \/ \E to \in RouteStations \cup {"Z"} : GetFareInBetween(r, "A", to)

EffectiveNext ==
  \/ \E r \in SeqReqs : Quiet /\ EffectiveArrive(r)
  \/ \E r \in SeqReqs : RouteProceed(r)
  \/ \E r \in SeqReqs : Respond(r)
  \/ Tick

EffectiveSpec == RouteInit /\ [][EffectiveNext]_vars

(* ---------------- the trip lifecycle under concurrent requests ---------------- *)
\* the store after u1 has deposited the price of one trip for two
TripInit ==
  /\ users = [u \in Users |->
       IF u = "u1" THEN [NewUser EXCEPT !.balance = Money(2 * BaseFare)] ELSE NewUser]
  /\ stations = [s \in Stations |-> NewStation]
  /\ fares = <<SampleFare("A", "B", Money(BaseFare))>>
  /\ trips = <<>>
  /\ req = [r \in Reqs |-> Idle]
  /\ now = 0

\* first steps of the handlers that read or write a trip
TripArrive(r) ==
  \/ \E u \in Users, from \in Stations, to \in Stations,
        n \in PassengerInputs, pay \in PaymentInputs :
       TripsClaimed < MaxTickets /\ CreateTripGetFare(r, u, from, to, n, pay)
  \/ \E code \in TripIds : UseTripGetValid(r, code)
  \/ \E u \in Users, id \in TripIds : CompleteJourneyFind(r, u, id)

TripProceed(r) ==
  \/ CreateTripFindUser(r)
  \/ CreateTripCreate(r)
  \/ CreateTripDeduct(r)
  \/ UseTripUse(r)
  \/ UseTripStats(r)
  \/ CompleteJourneySave(r)

TripNext ==
  \/ \E r \in Reqs : FirstFree(r) /\ TripArrive(r)
  \/ \E r \in Reqs : TripProceed(r)
  \/ \E r \in Reqs : Respond(r)
  \/ Tick

TripSpec == TripInit /\ [][TripNext]_vars

(* ---------------- the trip lifecycle, one request at a time ---------------- *)
\* a request is admitted only when no other one is in flight: one slot serves them all
SeqNext ==
  \/ \E r \in SeqReqs : Quiet /\ TripArrive(r)
  \/ \E r \in SeqReqs : TripProceed(r)
  \/ \E r \in SeqReqs : Respond(r)
  \/ Tick

SeqSpec == TripInit /\ [][SeqNext]_vars

(* ---------------- concurrent Issue calls on funds for one trip ---------------- *)
\* every slot issues the same balance-paid trip for u1, whose balance (TripInit)
\* is exactly its totalAmount
RaceNext ==
  \/ \E r \in Reqs : CreateTripGetFare(r, "u1", "A", "B", 2, "balance")
  \/ \E r \in Reqs : CreateTripFindUser(r)
  \/ \E r \in Reqs : CreateTripCreate(r)
  \/ \E r \in Reqs : CreateTripDeduct(r)
  \/ Tick

RaceSpec == TripInit /\ [][RaceNext]_vars

(* ---------------- trips and the fare they were sold at ---------------- *)
\* first steps of the trip handlers on the seeded pair and of the admin's
\* update (a new price) and delete of a fare
ReceiptArrive(r) ==
  \/ \E u \in Users, pay \in PaymentMethods :
       TripsClaimed < MaxTickets /\ CreateTripGetFare(r, u, "A", "B", 2, pay)
  \/ \E code \in TripIds : UseTripGetValid(r, code)
  \/ \E u \in Users, id \in TripIds : CompleteJourneyFind(r, u, id)
  \/ \E id \in FareIds, p \in PriceInputs : UpdateFareFind(r, id, p, {})
  \/ \E id \in FareIds : DeleteFareFind(r, id)

ReceiptProceed(r) ==
  \/ TripProceed(r)
  \/ UpdateFareSave(r)
  \/ DeleteFareSave(r)

ReceiptNext ==
  \/ \E r \in Reqs : FirstFree(r) /\ ReceiptArrive(r)
  \/ \E r \in Reqs : ReceiptProceed(r)
  \/ \E r \in Reqs : Respond(r)

ReceiptSpec == TripInit /\ [][ReceiptNext]_vars

(* ---------------- stations and users: names, codes, emails, phone numbers ---------------- *)
\* stations and users a request may create where their keys are explored
MaxEntries == 2

EntryIds == 1..MaxEntries

\* bodies of station requests: name and, optionally, code (none has blanks
\* around it, so the validators' trim() leaves them as they are)
StationBodies ==
  {[name |-> "Uttara"], [name |-> "Uttara", code |-> "ut"],
   [name |-> "Agargaon", code |-> "UT"], [name |-> "X"]}

\* bodies of user requests: all are valid e-mail addresses and phone numbers
UserBodies ==
  {[email |-> "A@x.io", phoneNumber |-> "01"], [email |-> "a@x.io", phoneNumber |-> "02"],
   [email |-> "b@x.io", phoneNumber |-> "01"]}

\* the schema setter uppercase: true of Station.code
toUpperCase(code) == IF code = "ut" THEN "UT" ELSE code

\* normalizeEmail() of the validators (and lowercase: true of User.email)
normalizeEmail(email) == IF email = "A@x.io" THEN "a@x.io" ELSE email

\* stationValidation: name isLength 2..100, code optional, isLength 2..10
stationValidation(body) ==
  /\ Len(body.name) >= 2 /\ Len(body.name) <= 100
  /\ "code" \in DOMAIN body => (Len(body.code) >= 2 /\ Len(body.code) <= 10)

\* the station a body describes, as the schema stores it
StationDoc(body) ==
  IF "code" \in DOMAIN body
    THEN [name |-> body.name, code |-> toUpperCase(body.code), isActive |-> TRUE]
    ELSE [name |-> body.name, isActive |-> TRUE]

\* the user a body describes, as register stores it
UserDoc(body) ==
  [email |-> normalizeEmail(body.email), phoneNumber |-> body.phoneNumber,
   balance |-> NewUser.balance, totalTrips |-> NewUser.totalTrips,
   totalExpense |-> NewUser.totalExpense, isActive |-> NewUser.isActive]

\* Station.findOne({$or: [{name}, {code}]}), without the station self (0: none)
existingStation(doc, self) ==
  {i \in 1..Len(stations) :
      /\ i # self
      /\ \/ stations[i].name = doc.name
         \/ /\ "code" \in DOMAIN doc /\ "code" \in DOMAIN stations[i]
            /\ stations[i].code = doc.code}

\* User.findOne({$or: [{email}, {phoneNumber}]}), without the user self (0: none)
existingUser(doc, self) ==
  {i \in 1..Len(users) :
      /\ i # self
      /\ (users[i].email = doc.email \/ users[i].phoneNumber = doc.phoneNumber)}

\* the unique indexes on Station.name and (sparse) Station.code: a write that
\* gives a document the key of another one fails with a duplicate key error
DuplicateStationKeyUnchecked(doc, self) == FALSE

DuplicateStationKey(doc, self) == existingStation(doc, self) # {}

\* the unique indexes on User.email and User.phoneNumber
DuplicateUserKey(doc, self) == existingUser(doc, self) # {}

\* records in a collection plus those the requests in flight may still insert
EntriesClaimed(docs, o) ==
  Len(docs) + Cardinality({r \in Reqs : req[r].op = o /\ req[r].pc = "create"})

\* `Station with this ${conflictField} already exists` for the first match
conflictMessage(found, doc) ==
  IF stations[CHOOSE i \in found : \A j \in found : i <= j].name = doc.name
    THEN "Station with this name already exists"
    ELSE "Station with this code already exists"

(* ---------------- createStation ---------------- *)
CreateStationFind(r, body) ==
  /\ req[r] = Idle
  /\ EntriesClaimed(stations, "createStation") < MaxEntries
  /\ req' = [req EXCEPT ![r] =
       IF ~stationValidation(body)
         THEN Done("createStation", 400, "Station name must be between 2 and 100 characters")
       ELSE IF existingStation(StationDoc(body), 0) # {}
         THEN Done("createStation", 400,
                   conflictMessage(existingStation(StationDoc(body), 0), StationDoc(body)))
       ELSE [op |-> "createStation", pc |-> "create", doc |-> StationDoc(body)]]
  /\ UNCHANGED <<users, stations, fares, trips, now>>

\* Station.create(stationData)
CreateStationCreate(r) ==
  /\ req[r].op = "createStation" /\ req[r].pc = "create"
  /\ IF DuplicateStationKey(req[r].doc, 0)
       THEN /\ stations' = stations
            /\ req' = [req EXCEPT ![r] = Done("createStation", 500, "E11000 duplicate key error")]
       ELSE /\ stations' = Append(stations, req[r].doc)
            /\ req' = [req EXCEPT ![r] = Done("createStation", 201, "Station created successfully")]
  /\ UNCHANGED <<users, fares, trips, now>>

(* ---------------- updateStation ---------------- *)
\* validation, Station.findById, the existence query without the station
\* itself, and the assignments of name and code on the copy
UpdateStationFind(r, id, body) ==
  /\ req[r] = Idle
  /\ req' = [req EXCEPT ![r] =
       IF ~stationValidation(body)
         THEN Done("updateStation", 400, "Station name must be between 2 and 100 characters")
       ELSE IF findById(stations, id) = {} THEN Done("updateStation", 404, "Station not found")
       ELSE IF existingStation(StationDoc(body), id) # {}
         THEN Done("updateStation", 400,
                   conflictMessage(existingStation(StationDoc(body), id), StationDoc(body)))
       ELSE [op |-> "updateStation", pc |-> "save", id |-> id,
             set |-> [f \in DOMAIN StationDoc(body) \ {"isActive"} |-> StationDoc(body)[f]]]]
  /\ UNCHANGED <<users, stations, fares, trips, now>>

\* the document with the paths of set written over it
WithPaths(doc, set) ==
  [f \in DOMAIN doc \cup DOMAIN set |-> IF f \in DOMAIN set THEN set[f] ELSE doc[f]]

\* station.save()
UpdateStationSave(r) ==
  /\ req[r].op = "updateStation" /\ req[r].pc = "save"
  /\ LET doc == WithPaths(stations[req[r].id], req[r].set) IN
     IF DuplicateStationKey(doc, req[r].id)
       THEN /\ stations' = stations
            /\ req' = [req EXCEPT ![r] = Done("updateStation", 500, "E11000 duplicate key error")]
       ELSE /\ stations' = [stations EXCEPT ![req[r].id] = doc]
            /\ req' = [req EXCEPT ![r] = Done("updateStation", 200, "Station updated successfully")]
  /\ UNCHANGED <<users, fares, trips, now>>

(* ---------------- register ---------------- *)
RegisterFind(r, body) ==
  /\ req[r] = Idle
  /\ EntriesClaimed(users, "register") < MaxEntries
  /\ req' = [req EXCEPT ![r] =
       IF existingUser(UserDoc(body), 0) # {}
         THEN Done("register", 400, "User with this email or phone number already exists")
       ELSE [op |-> "register", pc |-> "create", doc |-> UserDoc(body)]]
  /\ UNCHANGED <<users, stations, fares, trips, now>>

\* User.create({fullName, email, phoneNumber, password})
RegisterCreate(r) ==
  /\ req[r].op = "register" /\ req[r].pc = "create"
  /\ IF DuplicateUserKey(req[r].doc, 0)
       THEN /\ users' = users
            /\ req' = [req EXCEPT ![r] = Done("register", 500, "E11000 duplicate key error")]
       ELSE /\ users' = Append(users, req[r].doc)
            /\ req' = [req EXCEPT ![r] = Done("register", 201, "User registered successfully")]
  /\ UNCHANGED <<stations, fares, trips, now>>

(* ---------------- updateUser (admin edit of email and phone number) ---------------- *)
UpdateUserKeysFind(r, id, body) ==
  /\ req[r] = Idle
  /\ req' = [req EXCEPT ![r] =
       IF findById(users, id) = {} THEN Done("update", 404, "User not found")
       ELSE IF existingUser(UserDoc(body), id) # {}
         THEN Done("update", 400, "Email or phone number already exists")
       ELSE [op |-> "update", pc |-> "keys", id |-> id,
             set |-> [email |-> UserDoc(body).email, phoneNumber |-> UserDoc(body).phoneNumber]]]
  /\ UNCHANGED <<users, stations, fares, trips, now>>

\* user.save()
UpdateUserKeysSave(r) ==
  /\ req[r].op = "update" /\ req[r].pc = "keys"
  /\ LET doc == WithPaths(users[req[r].id], req[r].set) IN
     IF DuplicateUserKey(doc, req[r].id)
       THEN /\ users' = users
            /\ req' = [req EXCEPT ![r] = Done("update", 500, "E11000 duplicate key error")]
       ELSE /\ users' = [users EXCEPT ![req[r].id] = doc]
            /\ req' = [req EXCEPT ![r] = Done("update", 200, "User updated successfully")]
  /\ UNCHANGED <<stations, fares, trips, now>>

(* ---------------- the directory of stations and users under concurrent requests ---------------- *)
\* the store before any station or user has been created
DirectoryInit ==
  /\ users = <<>>
  /\ stations = <<>>
  /\ fares = <<>>
  /\ trips = <<>>
  /\ req = [r \in Reqs |-> Idle]
  /\ now = 0

DirectoryArrive(r) ==
  \/ \E body \in StationBodies : CreateStationFind(r, body)
  \/ \E id \in EntryIds, body \in StationBodies : UpdateStationFind(r, id, body)
  \/ \E id \in EntryIds : DeleteStationFind(r, id)
  \/ \E body \in UserBodies : RegisterFind(r, body)
  \/ \E id \in EntryIds, body \in UserBodies : UpdateUserKeysFind(r, id, body)

DirectoryProceed(r) ==
  \/ CreateStationCreate(r)
  \/ UpdateStationSave(r)
  \/ DeleteStationSave(r)
  \/ RegisterCreate(r)
  \/ UpdateUserKeysSave(r)

DirectoryNext ==
  \/ \E r \in Reqs : FirstFree(r) /\ DirectoryArrive(r)
  \/ \E r \in Reqs : DirectoryProceed(r)
  \/ \E r \in Reqs : Respond(r)

DirectorySpec == DirectoryInit /\ [][DirectoryNext]_vars

(* ---------------- a deleted fare, its tuple and Issue ---------------- *)
\* first steps of the admin's fare handlers on the seeded pair (createFare of
\* either type, updateFare with a new price and possibly isActive, deleteFare)
\* and of a cash Issue of u1 on that pair
RetireArrive(r) ==
  \/ \E t \in FareTypes : CreateFareFind(r, "A", "B", Money(BaseFare) + Unit, t, Null, Null)
  \/ \E id \in FareIds, sent \in {{}, {"isActive"}} :
       UpdateFareFind(r, id, Money(BaseFare) + Unit, sent)
  \/ \E id \in FareIds : DeleteFareFind(r, id)
  \/ TripsClaimed < MaxTickets /\ CreateTripGetFare(r, "u1", "A", "B", 2, "cash")

RetireProceed(r) ==
  \/ CreateFareCreate(r)
  \/ UpdateFareSave(r)
  \/ DeleteFareSave(r)
  \/ CreateTripFindUser(r)
  \/ CreateTripCreate(r)

RetireNext ==
  \/ \E r \in Reqs : FirstFree(r) /\ RetireArrive(r)
  \/ \E r \in Reqs : RetireProceed(r)
  \/ \E r \in Reqs : Respond(r)

RetireSpec == Init /\ [][RetireNext]_vars

(* ======================= properties ======================= *)

\* the step a request r takes
Steps(r) == req'[r] # req[r]

\* C1: every user's balance is >= 0 in every reachable state, whatever the
\* interleaving of deposits, balance-paid issues and admin balance edits.
BalanceNeverNegative == \A u \in Users : users[u].balance >= 0

\* C1 witness: a balance-paid Issue has emptied the balance while a second one of
\* the same user, which read the balance before that debit, is about to debit too.
StaleDebitPending ==
  \E r1 \in Reqs, r2 \in Reqs :
    /\ req[r1] = Done("issue", 201, "Trip created successfully")
    /\ req[r2].op = "issue" /\ req[r2].pc = "deduct"
    /\ users[req[r2].user].balance = 0
    /\ req[r2].balance = req[r2].totalAmount
    /\ \A i \in 1..Len(trips) : trips[i].user = req[r2].user

\* C2: concurrent balance-paid Issue calls of one user whose balance covers
\* exactly one trip end with one success, the others failing with
\* "Insufficient balance": one trip, one debit.
RaceHasOneWinner ==
  (\A r \in Reqs : req[r].pc = "done") =>
    /\ Cardinality({r \in Reqs : req[r].status = 201}) = 1
    /\ \A r \in Reqs : req[r].status # 201 => req[r] = Done("issue", 400, "Insufficient balance")
    /\ Len(trips) = 1
    /\ users["u1"].balance = 0

\* C3: a balance-paid Issue whose user has less than fare x numberOfPassengers
\* answers 400 "Insufficient balance", creates no trip and leaves every user
\* (balance, totalTrips, totalExpense) as it was.
InsufficientFundsRejected ==
  [][\A r \in Reqs :
       ( /\ req[r].op = "issue" /\ req[r].pc = "user" /\ req[r].pay = "balance"
         /\ users[req[r].user].balance < req[r].fare * req[r].n
         /\ Steps(r) )
       => /\ req'[r] = Done("issue", 400, "Insufficient balance")
          /\ trips' = trips
          /\ users' = users]_vars

\* C3 witness: an Issue was refused for a user who holds some money, but not enough.
InsufficientFundsSeen ==
  \E r \in Reqs, u \in Users :
    /\ req[r] = Done("issue", 400, "Insufficient balance")
    /\ users[u].balance = Money(BaseFare)
    /\ trips = <<>>

\* the regular fare Fare.getFare finds for a pair
RegularPrice(from, to) ==
  LET found == getFare(from, to, "regular") IN
  fares[CHOOSE i \in found : \A j \in found : i <= j].fare

\* C4: with one request at a time, a successful balance-paid Issue appends one
\* trip (status created, fare = the active regular fare's price, totalAmount =
\* fare x numberOfPassengers, expiresAt = creation time + 24 h) and lowers the
\* user's balance by exactly that totalAmount.
IssueCreatesAndCharges ==
  [][\A r \in Reqs :
       /\ ( req[r].op = "issue" /\ req[r].pc = "create" /\ req[r].pay = "balance" /\ Steps(r) )
          => /\ trips' = Append(trips, trips'[Len(trips')])
             /\ LET t == trips'[Len(trips')] IN
                /\ t.status = "created"
                /\ t.user = req[r].user
                /\ t.fare = RegularPrice(req[r].from, req[r].to)
                /\ t.numberOfPassengers = req[r].n
                /\ t.totalAmount = t.fare * req[r].n
                /\ t.expiresAt = now + TripLifetime
             /\ users' = users
             /\ req'[r].pc = "deduct"
       /\ ( req[r].op = "issue" /\ req[r].pc = "deduct" /\ Steps(r) )
          => /\ req'[r] = Done("issue", 201, "Trip created successfully")
             /\ trips' = trips
             /\ users' = [users EXCEPT ![req[r].user].balance =
                            @ - trips[req[r].trip].totalAmount]]_vars

\* C4 witness: a trip for two was paid from a balance of exactly its totalAmount.
IssueChargedSeen ==
  /\ Len(trips) = 1
  /\ trips[1].paymentMethod = "balance" /\ trips[1].totalAmount = Money(2 * BaseFare)
  /\ users[trips[1].user].balance = 0
  /\ \E r \in Reqs : req[r] = Done("issue", 201, "Trip created successfully")

\* C5: a Redeem of a trip that is created and not expired stores status used
\* with usedAt = journeyStartTime = now, answers 200, and raises the owner's
\* totalTrips by 1 and totalExpense by the trip's totalAmount.
RedeemUsesAndCounts ==
  [][\A r \in Reqs :
       /\ ( /\ req[r].op = "redeem" /\ req[r].pc = "use" /\ Steps(r)
            /\ trips[req[r].trip].status = "created"
            /\ trips[req[r].trip].expiresAt >= now )
          => /\ trips'[req[r].trip].status = "used"
             /\ trips'[req[r].trip].usedAt = now
             /\ trips'[req[r].trip].journeyStartTime = now
       /\ ( req[r].op = "redeem" /\ req[r].pc = "stats" /\ Steps(r) )
          => LET u == trips[req[r].trip].user IN
             /\ req'[r].status = 200
             /\ users'[u].totalTrips = users[u].totalTrips + 1
             /\ users'[u].totalExpense = users[u].totalExpense + trips[req[r].trip].totalAmount]_vars

\* C6: a Redeem of a trip that is created and whose expiresAt has passed
\* stores status expired for it and fails.
ExpiredRedeemStoresExpired ==
  [][\A r \in Reqs, c \in TripIds :
       /\ ( /\ c <= Len(trips) /\ trips[c].status = "created" /\ trips[c].expiresAt < now
            /\ UseTripGetValid(r, c) )
          => trips'[c].status = "expired" /\ req'[r].pc = "done" /\ req'[r].status # 200
       /\ ( /\ c <= Len(trips) /\ trips[c].status = "created" /\ trips[c].expiresAt < now
            /\ req[r].op = "redeem" /\ req[r].pc = "use" /\ req[r].trip = c /\ Steps(r) )
          => trips'[c].status = "expired" /\ req'[r].pc = "done" /\ req'[r].status # 200]_vars

\* C7: once expiresAt has passed, no step makes the trip used and no Redeem of
\* it is answered 200; no step ever changes a trip's expiresAt.
ExpiredNeverUsed ==
  [][\A c \in 1..Len(trips) :
       /\ trips'[c].expiresAt = trips[c].expiresAt
       /\ (trips[c].expiresAt < now /\ trips[c].status # "used")
          => /\ trips'[c].status # "used"
             /\ \A r \in Reqs :
                  (req[r].op = "redeem" /\ req[r].trip = c /\ Steps(r))
                  => ~(req'[r].pc = "done" /\ req'[r].status = 200)]_vars

\* C7 witness: a Redeem that found the trip in time reached useTrip after the
\* expiry and was refused; the trip is still not used.
ExpiredRedeemRefused ==
  \E r \in Reqs :
    /\ req[r] = Done("redeem", 400, "Trip has expired") @@ [trip |-> 1]
    /\ Len(trips) >= 1 /\ trips[1].status # "used" /\ trips[1].expiresAt < now

\* C8: with one request at a time, a Redeem of a code that matches no trip, or
\* of a used trip, answers 404 and leaves the trips and the users unchanged.
RedeemUnknownOrUsedNotFound ==
  [][\A r \in Reqs, c \in TripIds :
       ( /\ UseTripGetValid(r, c)
         /\ (c > Len(trips) \/ trips[c].status = "used") )
       => /\ req'[r] = Done("redeem", 404, "Invalid or expired trip code") @@ [trip |-> c]
          /\ trips' = trips
          /\ users' = users]_vars

\* C8 witness: a Redeem of the code of a used, unexpired trip was answered 404.
SecondRedeemNotFound ==
  \E r \in Reqs :
    /\ req[r] = Done("redeem", 404, "Invalid or expired trip code") @@ [trip |-> 1]
    /\ Len(trips) >= 1 /\ trips[1].status = "used" /\ trips[1].expiresAt > now

\* C9: a stored status changes only from created; used, expired and cancelled
\* are final, no step stores cancelled, and the save of completeJourney changes
\* journeyEndTime alone.
StatusLeavesCreatedOnly ==
  [][\A c \in 1..Len(trips) :
       /\ trips'[c].status # trips[c].status => trips[c].status = "created"
       /\ trips'[c].status # "cancelled"
       /\ \A r \in Reqs :
            (req[r].op = "complete" /\ req[r].pc = "save" /\ req[r].trip = c /\ Steps(r))
            => trips'[c] = [trips[c] EXCEPT !.journeyEndTime = trips'[c].journeyEndTime]]_vars

\* C9 witness: a used trip whose journey was completed after its expiry, while
\* a Redeem that had found it before it was used is still in flight.
UsedTripCompleted ==
  \E r \in Reqs :
    /\ req[r].op = "redeem" /\ req[r].pc = "use" /\ req[r].trip = 1
    /\ trips[1].status = "used" /\ trips[1].journeyEndTime # Null
    /\ trips[1].expiresAt < now

\* C10: CompleteJourney by the owner on a trip that is not used answers 400
\* and changes no trip; the trip's journeyEndTime is still unset.
CompleteNeedsUsed ==
  [][\A r \in Reqs, u \in Users, id \in TripIds :
       ( /\ id <= Len(trips) /\ trips[id].user = u /\ trips[id].status # "used"
         /\ CompleteJourneyFind(r, u, id) )
       => /\ req'[r] = Done("complete", 400,
                         "Journey cannot be completed. Trip status: " \o trips[id].status)
          /\ trips' = trips
          /\ trips'[id].journeyEndTime = Null]_vars

\* C10 witness: the owner's CompleteJourney on a created trip was refused.
CompleteRefusedOnCreated ==
  \E r \in Reqs :
    /\ req[r] = Done("complete", 400, "Journey cannot be completed. Trip status: created")
    /\ Len(trips) = 1 /\ trips[1].status = "created" /\ trips[1].journeyEndTime = Null

\* C11: CompleteJourney requested by a user who does not own the trip answers
\* 403 whatever the trip's status and changes no trip; a journeyEndTime is only
\* ever written by the save of a CompleteJourney request, which only the
\* owner's request reaches.
OnlyOwnerCompletes ==
  [][/\ \A r \in Reqs, u \in Users, id \in TripIds :
          ( /\ id <= Len(trips) /\ trips[id].user # u
            /\ CompleteJourneyFind(r, u, id) )
          => /\ req'[r] = Done("complete", 403, "Not authorized")
             /\ trips' = trips
     /\ \A c \in 1..Len(trips) :
          trips'[c].journeyEndTime # trips[c].journeyEndTime
          => \E r \in Reqs :
               /\ req[r].op = "complete" /\ req[r].pc = "save" /\ req[r].trip = c
               /\ Steps(r)]_vars

\* C11 witness: a user who does not own a used trip asked to complete it and
\* was refused; its journeyEndTime is unset.
StrangerRefused ==
  \E r \in Reqs :
    /\ req[r] = Done("complete", 403, "Not authorized")
    /\ Len(trips) = 1 /\ trips[1].status = "used" /\ trips[1].journeyEndTime = Null

OneActiveFarePerTuple ==
  \A i \in 1..Len(fares), j \in 1..Len(fares) :
    ( /\ fares[i].isActive /\ fares[j].isActive
      /\ fares[i].fromStation = fares[j].fromStation
      /\ fares[i].toStation = fares[j].toStation
      /\ fares[i].fareType = fares[j].fareType )
    => i = j

\* C13 witness: of two concurrent createFare requests for one tuple, one
\* inserted its fare and the other was rejected by the unique index.
SecondCreateFareRejected ==
  /\ Len(fares) = 1 /\ fares[1].isActive
  /\ \E r1 \in Reqs, r2 \in Reqs :
       /\ req[r1] = Done("createFare", 201, "Fare created successfully")
       /\ req[r2] = Done("createFare", 500, "E11000 duplicate key error")

\* C14: the fare an Issue finds for its station pair is an active regular fare
\* of that pair whose window holds the current time: effectiveFrom <= now, and
\* effectiveTo unset or >= now.
IssueFindsFareInWindow ==
  [][\A r \in Reqs :
       (req[r] = Idle /\ req'[r].op = "issue" /\ req'[r].pc = "user")
       => \E i \in 1..Len(fares) :
            /\ fares[i].fromStation = req'[r].from /\ fares[i].toStation = req'[r].to
            /\ fares[i].fareType = "regular" /\ fares[i].isActive
            /\ fares[i].fare = req'[r].fare
            /\ fares[i].effectiveFrom <= now
            /\ (fares[i].effectiveTo = Null \/ fares[i].effectiveTo >= now)]_vars

\* C14 witness: a trip was sold at a fare whose effectiveFrom was still in the future.
TripSoldBeforeEffectiveFrom ==
  \E t \in 1..Len(trips), i \in 1..Len(fares) :
    /\ fares[i].fromStation = trips[t].fromStation /\ fares[i].toStation = trips[t].toStation
    /\ fares[i].fareType = "regular"
    /\ trips[t].expiresAt - TripLifetime < fares[i].effectiveFrom

\* C15: an Issue for a station pair that has no active regular fare from
\* fromStation to toStation answers 404 "Fare not found for this route",
\* creates no trip and changes no user, whatever fares exist for the reverse
\* direction, for other fare types or along a path through other stations.
IssueNeedsDirectFare ==
  [][\A r \in Reqs, from \in RouteStations, to \in RouteStations :
       ( /\ CreateTripGetFare(r, "u1", from, to, 2, "balance")
         /\ ~ \E i \in 1..Len(fares) :
                /\ fares[i].fromStation = from /\ fares[i].toStation = to
                /\ fares[i].fareType = "regular" /\ fares[i].isActive )
       => /\ req'[r] = Done("issue", 404, "Fare not found for this route")
          /\ trips' = trips
          /\ users' = users]_vars

\* C15 witness: an Issue was answered 404 while active regular fares A -> B and
\* B -> C exist, so that every pair without a direct fare has a reverse fare
\* or a two-hop path; no trip exists and u1 still has its deposit.
IssueRefusedDespiteHops ==
  /\ \E r \in Reqs : req[r] = Done("issue", 404, "Fare not found for this route")
  /\ \E i \in 1..Len(fares), j \in 1..Len(fares) :
       /\ fares[i].fromStation = "A" /\ fares[i].toStation = "B"
       /\ fares[j].fromStation = "B" /\ fares[j].toStation = "C"
       /\ fares[i].fareType = "regular" /\ fares[j].fareType = "regular"
       /\ fares[i].isActive /\ fares[j].isActive
  /\ trips = <<>>
  /\ users["u1"].balance = Money(2 * BaseFare)

\* C16: no step removes a user, a station, a fare or a trip from its
\* collection; the save of a delete handler writes isActive = false on its
\* document and nothing else.
NoRecordRemoved ==
  [][/\ DOMAIN users \subseteq DOMAIN users'
     /\ DOMAIN stations \subseteq DOMAIN stations'
     /\ DOMAIN fares \subseteq DOMAIN fares'
     /\ DOMAIN trips \subseteq DOMAIN trips'
     /\ \A r \in Reqs :
          (req[r].pc = "save" /\ Steps(r))
          => /\ req[r].op = "deleteUser"
                => users' = [users EXCEPT ![req[r].id].isActive = FALSE]
             /\ req[r].op = "deleteStation"
                => stations' = [stations EXCEPT ![req[r].id].isActive = FALSE]
             /\ req[r].op = "deleteFare"
                => fares' = [fares EXCEPT ![req[r].id].isActive = FALSE]]_vars

\* C16 witness: a user, a station and a fare have been deleted, and a trip
\* issued; all four documents are stored.
DeletedStillStored ==
  /\ ~users["u1"].isActive /\ ~stations["A"].isActive
  /\ Len(fares) >= 1 /\ ~fares[1].isActive
  /\ Len(trips) = 1
  /\ \E r \in Reqs : req[r].pc = "done" /\ req[r].op \in {"deleteUser", "deleteStation", "deleteFare"}

\* C17: a lookup by id of a station, a fare or a user that has been
\* soft-deleted answers 404 with the message of an id that was never created.
DeletedLooksAbsent ==
  [][\A r \in Reqs :
       /\ \A id \in DOMAIN stations :
            (GetStationById(r, id) /\ ~stations[id].isActive)
            => req'[r] = Done("getStation", 404, "Station not found") @@ [id |-> id]
       /\ \A id \in DOMAIN fares :
            (GetFareById(r, id) /\ ~fares[id].isActive)
            => req'[r] = Done("getFare", 404, "Fare not found") @@ [id |-> id]
       /\ \A id \in DOMAIN users :
            (GetUserById(r, id) /\ ~users[id].isActive)
            => req'[r] = Done("getUser", 404, "User not found") @@ [id |-> id]]_vars

\* C17 witness: the lookup of a deleted station was answered 200, the lookup
\* of a station that was never created 404.
DeletedStationFound ==
  \E r1 \in Reqs, r2 \in Reqs :
    /\ req[r1] = Done("getStation", 200, "Station retrieved successfully") @@ [id |-> "A"]
    /\ ~stations["A"].isActive
    /\ req[r2] = Done("getStation", 404, "Station not found") @@ [id |-> "Z"]

\* C18: an updateFare request that names fromStation, toStation, fareType,
\* effectiveFrom, effectiveTo or isActive answers 400 and changes no fare; the
\* save of an accepted update changes at most the fare and the duration of its
\* fare and leaves every other field of every fare as it was.
UpdateFareKeepsIdentity ==
  [][\A r \in Reqs :
       /\ \A id \in FareIds, p \in UpdatePriceInputs, sent \in SentFieldInputs :
            (UpdateFareFind(r, id, p, sent) /\ sent \cap nonEditableFields # {})
            => /\ req'[r].pc = "done" /\ req'[r].status = 400
               /\ fares' = fares
       /\ (req[r].op = "updateFare" /\ req[r].pc = "save" /\ Steps(r))
          => /\ DOMAIN fares' = DOMAIN fares
             /\ \A i \in DOMAIN fares :
                  /\ DOMAIN fares'[i] = DOMAIN fares[i]
                  /\ \A f \in DOMAIN fares[i] :
                       (i # req[r].id \/ f \notin {"fare", "duration"})
                       => fares'[i][f] = fares[i][f]]_vars

\* C18 witness: an accepted update has changed the price and the duration of
\* the fare A -> B; its pair, type, window and isActive are those it was created with.
FareRepriced ==
  /\ \E r \in Reqs : req[r] = Done("updateFare", 200, "Fare updated successfully")
  /\ Len(fares) >= 1
  /\ fares[1].fare = Money(BaseFare) /\ fares[1].duration = SampleDuration + 1
  /\ fares[1].fromStation = "A" /\ fares[1].toStation = "B" /\ fares[1].isActive
  /\ fares[1].effectiveFrom = 0 /\ fares[1].effectiveTo = Null

DepositSurvivesIssue ==
  [][\A r1 \in Reqs, r2 \in Reqs :
       ( /\ req[r1] = Done("deposit", 200, "Deposit successful")
         /\ req[r2].op = "issue" /\ req[r2].pc = "deduct"
         /\ users[req[r2].user].balance > req[r2].balance
         /\ Steps(r2) /\ req'[r2].status = 201 )
       => users'[req[r2].user].balance
            = users[req[r2].user].balance - req[r2].totalAmount]_vars

\* C20 witness: a Deposit has been answered with success and has raised the
\* stored balance above the one a balance-paid Issue of the same user read
\* earlier and is about to debit.
DepositLandedDuringIssue ==
  \E r1 \in Reqs, r2 \in Reqs :
    /\ req[r1] = Done("deposit", 200, "Deposit successful")
    /\ req[r2].op = "issue" /\ req[r2].pc = "deduct"
    /\ users[req[r2].user].balance = req[r2].balance + Money(BaseFare)

\* C21: with one request at a time, a Redeem that was answered with an error
\* after finding its trip has written nothing: the trip is still created with
\* usedAt and journeyStartTime unset, and the owner's totalTrips and
\* totalExpense are what they were.
FailedRedeemWroteNothing ==
  \A r \in Reqs :
    (req[r].op = "redeem" /\ req[r].pc = "done" /\ req[r].status = 400) =>
      LET t == trips[req[r].trip] IN
      /\ t.status = "created" /\ t.usedAt = Null /\ t.journeyStartTime = Null
      /\ users[t.user].totalTrips = NewUser.totalTrips
      /\ users[t.user].totalExpense = NewUser.totalExpense

\* C21 witness: a Redeem that found its trip in time failed the expiry re-check
\* of useTrip, and the trip is still created with no usedAt.
RedeemFailedAtRecheck ==
  \E r \in Reqs :
    /\ req[r].op = "redeem" /\ req[r].pc = "done"
    /\ req[r].status = 400 /\ req[r].message = "Trip has expired"
    /\ trips[req[r].trip].status = "created"
    /\ trips[req[r].trip].usedAt = Null

\* C22: once a CompleteJourney has succeeded on a trip (journeyEndTime is
\* set), no step changes that trip: a later CompleteJourney by the owner
\* leaves journeyEndTime as it is.
CompletedTripFrozen ==
  [][\A i \in 1..Len(trips) :
       trips[i].journeyEndTime # Null => trips'[i] = trips[i]]_vars

\* C22 witness: the owner's second CompleteJourney on a trip whose journey
\* has already ended passed the status check at a later time and is about to
\* save its own journeyEndTime.
SecondCompleteAccepted ==
  \E r \in Reqs :
    /\ req[r].op = "complete" /\ req[r].pc = "save"
    /\ trips[req[r].trip].journeyEndTime # Null
    /\ req[r].at > trips[req[r].trip].journeyEndTime

\* C23: no step changes the fare, totalAmount, numberOfPassengers,
\* fromStation, toStation, user or expiresAt of a stored trip, and every
\* stored trip has totalAmount = fare x numberOfPassengers, whatever happens
\* to the Fare record it was sold at and whatever Redeem and CompleteJourney do.
TripReceiptImmutable ==
  [][/\ \A i \in 1..Len(trips) :
          /\ trips'[i].fare = trips[i].fare
          /\ trips'[i].totalAmount = trips[i].totalAmount
          /\ trips'[i].numberOfPassengers = trips[i].numberOfPassengers
          /\ trips'[i].fromStation = trips[i].fromStation
          /\ trips'[i].toStation = trips[i].toStation
          /\ trips'[i].user = trips[i].user
          /\ trips'[i].expiresAt = trips[i].expiresAt
     /\ \A i \in 1..Len(trips') :
          trips'[i].totalAmount = trips'[i].fare * trips'[i].numberOfPassengers]_vars

\* C23 witness: a trip was redeemed and its journey completed after the fare
\* it was sold at had been given another price and then deleted.
TripOutlivedItsFare ==
  /\ Len(trips) = 1
  /\ trips[1].status = "used" /\ trips[1].journeyEndTime # Null
  /\ trips[1].fare = Money(BaseFare) /\ trips[1].totalAmount = Money(2 * BaseFare)
  /\ fares[1].fare # trips[1].fare /\ ~fares[1].isActive

\* C24: in every reachable state no two stations, active or soft-deleted,
\* have the same name or the same code, and no two users have the same email
\* or the same phone number, also after concurrent creates and updates.
KeysAreUnique ==
  /\ \A i \in 1..Len(stations), j \in 1..Len(stations) :
       i # j =>
         /\ stations[i].name # stations[j].name
         /\ ("code" \in DOMAIN stations[i] /\ "code" \in DOMAIN stations[j])
              => stations[i].code # stations[j].code
  /\ \A i \in 1..Len(users), j \in 1..Len(users) :
       i # j =>
         /\ users[i].email # users[j].email
         /\ users[i].phoneNumber # users[j].phoneNumber

\* C24 witness: two concurrent creates of one station name and two concurrent
\* registers of one email both passed the existence query; one of each was
\* stored and the other was refused by the unique index.
SecondCreateHitUniqueIndex ==
  \E r \in Reqs :
    /\ req[r].op \in {"createStation", "register"}
    /\ req[r].pc = "done" /\ req[r].status = 500
    /\ Len(stations) + Len(users) = 1

\* the sum of totalAmount over the used trips of user u among the first n trips
RECURSIVE UsedExpense(_, _)
UsedExpense(u, n) ==
  IF n = 0 THEN 0
  ELSE UsedExpense(u, n - 1)
       + (IF trips[n].user = u /\ trips[n].status = "used" THEN trips[n].totalAmount ELSE 0)

\* C25: with one request at a time, whenever no request is in flight each
\* user's totalTrips is the number of that user's used trips and totalExpense
\* is the sum of their totalAmount, whatever the payment method.
StatsMatchUsedTrips ==
  Quiet =>
    \A u \in Users :
      /\ users[u].totalTrips
           = Cardinality({i \in 1..Len(trips) : trips[i].user = u /\ trips[i].status = "used"})
      /\ users[u].totalExpense = UsedExpense(u, Len(trips))

\* C25 witness: a trip has been redeemed, no request is in flight, and its
\* owner's counters still say that no trip was ever used.
UsedTripNotCounted ==
  /\ Quiet
  /\ \E i \in 1..Len(trips) :
       /\ trips[i].status = "used"
       /\ users[trips[i].user].totalTrips = 0
       /\ users[trips[i].user].totalExpense = 0

\* C26: in every reachable state each stored trip has status used exactly
\* when usedAt is set and exactly when journeyStartTime is set, and a trip
\* whose journeyEndTime is set is used and ended no earlier than it started.
TripFieldsConsistent ==
  \A i \in 1..Len(trips) :
    /\ (trips[i].status = "used") <=> (trips[i].usedAt # Null)
    /\ (trips[i].status = "used") <=> (trips[i].journeyStartTime # Null)
    /\ trips[i].journeyEndTime # Null =>
         /\ trips[i].status = "used"
         /\ trips[i].journeyEndTime >= trips[i].journeyStartTime

\* C26 witness: a Redeem that read the trip while it was created is about to
\* save its own usedAt and journeyStartTime, at a later time, over a trip that
\* another Redeem has used and whose journey has already ended.
LateRedeemAfterJourneyEnd ==
  \E r \in Reqs :
    /\ req[r].op = "redeem" /\ req[r].pc = "use" /\ req[r].doc.status = "created"
    /\ trips[req[r].trip].status = "used"
    /\ trips[req[r].trip].journeyEndTime # Null
    /\ now > trips[req[r].trip].journeyEndTime
    /\ now <= trips[req[r].trip].expiresAt

\* C27: an Issue paid by cash or card that found its fare goes on to create
\* the trip and answers 201 whatever the user's balance, and none of its steps
\* changes a user; a step that lowers a balance is the debit of a balance-paid
\* Issue.
CashIssueIgnoresBalance ==
  [][/\ \A r \in Reqs :
          ( /\ req[r].op = "issue" /\ req[r].pc \in {"user", "create"}
            /\ req[r].pay \in {"cash", "card"} /\ Steps(r) )
          => /\ users' = users
             /\ req[r].pc = "user" => req'[r].pc = "create"
             /\ req[r].pc = "create"
                  => /\ req'[r] = Done("issue", 201, "Trip created successfully")
                     /\ Len(trips') = Len(trips) + 1
                     /\ trips'[Len(trips')].paymentMethod = req[r].pay
     /\ \A u \in Users :
          users'[u].balance < users[u].balance
          => \E r \in Reqs : /\ req[r].op = "issue" /\ req[r].pc = "deduct" /\ Steps(r)
                             /\ req[r].user = u]_vars

\* C27 witness: a user whose balance is 0 holds a trip that was paid by card.
CardTripOnEmptyBalance ==
  \E r \in Reqs, i \in 1..Len(trips) :
    /\ req[r] = Done("issue", 201, "Trip created successfully")
    /\ trips[i].paymentMethod = "card"
    /\ trips[i].user = "u2"
    /\ users["u2"].balance = 0 /\ trips[i].totalAmount > 0

\* the tuple has a fare, and every fare it has is soft-deleted
Retired(from, to, type) ==
  /\ \E i \in 1..Len(fares) :
       fares[i].fromStation = from /\ fares[i].toStation = to /\ fares[i].fareType = type
  /\ existingFare(from, to, type) = {}

\* C28: once the fare of a (fromStation, toStation, fareType) tuple has been
\* soft-deleted, no step gives the tuple an active fare again, and an Issue
\* that arrives for a pair whose regular fare is deleted is answered 404.
RetiredTupleStaysRetired ==
  [][/\ \A from \in Stations, to \in Stations, type \in FareTypes :
          Retired(from, to, type) => Retired(from, to, type)'
     /\ \A r \in Reqs :
          (Retired("A", "B", "regular") /\ req[r] = Idle /\ req'[r].op = "issue")
          => req'[r] = Done("issue", 404, "Fare not found for this route")]_vars

\* C28 witness: after the seeded fare was deleted, a createFare for its tuple
\* passed the existence query and was refused by the unique index, and an
\* Issue for the pair was answered 404.
ReCreateRefusedIssueNotFound ==
  \E r1 \in Reqs, r2 \in Reqs :
    /\ req[r1] = Done("createFare", 500, "E11000 duplicate key error")
    /\ req[r2] = Done("issue", 404, "Fare not found for this route")
    /\ Retired("A", "B", "regular")

\* C29: whenever GET /fares/in-between answers for a station pair, it returns
\* a regular fare exactly when Fare.getFare, the lookup of Issue, finds one for
\* the pair at that moment, and then both return the same fare record.
LookupsAgree ==
  [][\A r \in Reqs :
       (req[r] = Idle /\ req'[r].op = "inBetween")
       => LET found == getFare(req'[r].from, req'[r].to, "regular") IN
          /\ (req'[r].status = 200) <=> (found # {})
          /\ req'[r].status = 200
               => req'[r].fare = CHOOSE i \in found : \A j \in found : i <= j]_vars

\* C29 witness: GET /fares/in-between has returned a fare whose effectiveTo
\* has passed, the one Fare.getFare no longer finds for the pair.
InBetweenReturnedLapsedFare ==
  \E r \in Reqs :
    /\ req[r].op = "inBetween" /\ req[r].pc = "done" /\ req[r].status = 200
    /\ fares[req[r].fare].effectiveTo # Null
    /\ fares[req[r].fare].effectiveTo < now
    /\ getFare(req[r].from, req[r].to, "regular") = {}
    /\ getFareInBetween(req[r].from, req[r].to, "regular") = {req[r].fare}

\* C30: in every reachable state the paymentStatus of every stored trip is
\* pending: neither the balance debit of Issue nor Redeem nor CompleteJourney
\* sets it to completed or failed.
PaymentStatusStaysPending ==
  \A i \in 1..Len(trips) : trips[i].paymentStatus = "pending"

\* C30 witness: a trip was paid from the balance, which the debit has emptied,
\* it was redeemed and its journey completed, and its paymentStatus is pending.
PaidAndCompletedStillPending ==
  \E i \in 1..Len(trips) :
    /\ trips[i].paymentMethod = "balance" /\ users[trips[i].user].balance = 0
    /\ trips[i].status = "used" /\ trips[i].journeyEndTime # Null
    /\ trips[i].paymentStatus = "pending"
    /\ Quiet

====
